---- MODULE Spec2Model ----
(***************************************************************************)
(* Debate viewer (viewer/build_viewer.py): the persisted state document,   *)
(* the command-line writer, the server-side page renderer, the block and   *)
(* inline renderers of both sides and the client's polling loop.           *)
(*                                                                         *)
(* A line of text is a sequence of one-character strings.  A content       *)
(* string is the sequence of its lines, i.e. the value of split("\n"):     *)
(* the empty string is << <<>> >>.                                         *)
(***************************************************************************)
EXTENDS Integers, Sequences, FiniteSets, TLC

VARIABLES
    disk,       \* debate-output/state.json: NoFile or <<state document>>
    html,       \* debate-output/debate-live.html: NoFile or <<generated page>>
    args,       \* the parsed command line of the most recent writer command
    ncmds,      \* number of writer commands run so far
    client,     \* the script state and DOM of the page open in the browser
    text,       \* block renderers: the content string being rendered
    lineNo,     \* block renderers: number of lines consumed so far
    srv,        \* md_to_html's locals  (in_list, in_table, result)
    cli,        \* mdToHtml's locals    (inList, inTable, result)
    fmt,        \* inline formatters: the input, the passes done, the text so far
    server,     \* debate-output/.server.pid and the server processes spawned
    writers     \* writer commands running side by side: what each has loaded

vars == <<disk, html, args, ncmds, client, text, lineNo, srv, cli, fmt, server,
          writers>>

NoFile == <<>>           \* a file that does not exist; <<x>> is a file holding x
None == "null"      \* Python None / a JSON null / an option not given

\* ------------------------------------------------------------------------
\* Bounds of the model
\* ------------------------------------------------------------------------
MaxLines == 3      \* lines of a content string fed to the block renderers
MaxCmds == 3       \* writer commands in one run
MaxEntries == 2    \* entries of a document
MaxFlags == 2      \* options combined on one command line
MaxParts == 2      \* fragments joined into a text fed to the inline formatters
MaxSeedEntries == 3  \* entries of a document given to the page renderers
MaxSpawns == 5     \* server processes spawned in one run

\* ------------------------------------------------------------------------
\* Character-level helpers shared by both block renderers
\* ------------------------------------------------------------------------
WS == {" ", "\t"}
Digits == {"0", "1", "2"}

RECURSIVE lstrip(_)
lstrip(s) == IF s # <<>> /\ Head(s) \in WS THEN lstrip(Tail(s)) ELSE s

RECURSIVE rstrip(_)
rstrip(s) ==
    IF s # <<>> /\ s[Len(s)] \in WS THEN rstrip(SubSeq(s, 1, Len(s) - 1)) ELSE s

\* str.strip() / String.prototype.trim()
strip(s) == lstrip(rstrip(s))

\* s.split("|"): the fragments between pipes (n pipes give n+1 fragments)
RECURSIVE split(_)
split(s) ==
    IF \A i \in 1..Len(s) : s[i] # "|" THEN <<s>>
    ELSE LET k == CHOOSE i \in 1..Len(s) :
                      s[i] = "|" /\ \A j \in 1..(i - 1) : s[j] # "|"
         IN  <<SubSeq(s, 1, k - 1)>> \o split(SubSeq(s, k + 1, Len(s)))

\* the mutation keeps the fragments before the first and after the last pipe
Cells_KeepEdges(s) ==
    LET f == split(s)
    IN  [i \in 1..Len(f) |-> strip(f[i])]

\* [c.strip() for c in stripped.split("|")[1:-1]]
Cells(s) ==
    LET f == split(s)
    IN  [i \in 1..(IF Len(f) >= 2 THEN Len(f) - 2 ELSE 0) |-> strip(f[i + 1])]

\* re.match(r"^[-:]+$", c)
IsSepCell(c) == c # <<>> /\ \A i \in 1..Len(c) : c[i] \in {"-", ":"}

\* all(... for c in cells): true of a row without cells
IsSeparatorRow(s) == \A i \in 1..Len(Cells(s)) : IsSepCell(Cells(s)[i])

\* "|" in stripped and stripped.startswith("|")
IsPipeRow(s) == (\E i \in 1..Len(s) : s[i] = "|") /\ s # <<>> /\ s[1] = "|"

\* length of the longest prefix of s made of characters of set S
RECURSIVE Run(_, _)
Run(s, S) == IF s # <<>> /\ Head(s) \in S THEN 1 + Run(Tail(s), S) ELSE 0

Drop(s, n) == SubSeq(s, n + 1, Len(s))

\* \s+(.+)$ applied to the rest of a line: <<matched, group>>
SpaceThenText(rest) ==
    LET w == Run(rest, WS)
    IN  IF w >= 1 /\ Len(rest) > w THEN <<TRUE, Drop(rest, w)>> ELSE <<FALSE, <<>>>>

\* re.match(r"^(#{1,4})\s+(.+)$", stripped): <<matched, len(group 1), group 2>>
HeaderMatch(s) ==
    LET h == Run(s, {"#"})
        m == SpaceThenText(Drop(s, h))
    IN  IF h >= 1 /\ h <= 4 /\ m[1] THEN <<TRUE, h, m[2]>> ELSE <<FALSE, 0, <<>>>>

\* re.match(r"^[-*]\s+(.+)$", stripped): <<matched, group 1>>
BulletMatch(s) ==
    IF s # <<>> /\ s[1] \in {"-", "*"} THEN SpaceThenText(Tail(s))
    ELSE <<FALSE, <<>>>>

\* re.match(r"^\d+[.)]\s+(.+)$", stripped): <<matched, group 1>>
NumberedMatch(s) ==
    LET d == Run(s, Digits)
    IN  IF d >= 1 /\ Len(s) > d /\ s[d + 1] \in {".", ")"}
        THEN SpaceThenText(Drop(s, d + 1))
        ELSE <<FALSE, <<>>>>

Min(a, b) == IF a <= b THEN a ELSE b

\* One element of a renderer's result list.  tag names the markup; body is
\* the text handed to the inline formatter (empty for pure markup).
Tok(tag, body) == [tag |-> tag, body |-> body]
Blank == Tok("", <<>>)               \* result.append("")
CloseUl == Tok("</ul>", <<>>)
CloseTable == Tok("</tbody></table>", <<>>)
OpenUl == Tok("<ul>", <<>>)
OpenTable == Tok("<table><thead><tr>", <<>>)
EndHead == Tok("</tr></thead><tbody>", <<>>)
OpenTr == Tok("<tr>", <<>>)
CloseTr == Tok("</tr>", <<>>)
Heading(level, body) ==
    Tok(CASE level = 3 -> "<h3>" [] level = 4 -> "<h4>"
          [] level = 5 -> "<h5>" [] OTHER -> "<h6>", body)

\* "\n".join(result): the pieces of the joined string; an empty element
\* contributes nothing but its separator.
NL == Tok("\n", <<>>)
RECURSIVE Join(_)
Join(res) ==
    IF res = <<>> THEN <<>>
    ELSE LET last == res[Len(res)]
             init == SubSeq(res, 1, Len(res) - 1)
         IN  Join(init)
             \o (IF init = <<>> THEN <<>> ELSE <<NL>>)
             \o (IF last = Blank THEN <<>> ELSE <<last>>)

\* ------------------------------------------------------------------------
\* Server-side block renderer: md_to_html
\* ------------------------------------------------------------------------
md_init == [in_list |-> FALSE, in_table |-> FALSE, table_header_done |-> FALSE,
            result |-> <<>>]

\* for c in cells: result.append(f"<th>...</th>")
CellToks(tag, cells) == [i \in 1..Len(cells) |-> Tok(tag, cells[i])]

md_close_table(st) ==
    IF st.in_table
    THEN [st EXCEPT !.result = @ \o <<CloseTable>>, !.in_table = FALSE,
                    !.table_header_done = FALSE]
    ELSE st

md_close_list(st) ==
    IF st.in_list
    THEN [st EXCEPT !.result = @ \o <<CloseUl>>, !.in_list = FALSE]
    ELSE st

md_open_list(st) ==
    IF ~st.in_list
    THEN [st EXCEPT !.result = @ \o <<OpenUl>>, !.in_list = TRUE]
    ELSE st

\* the body of "for line in lines"
md_step(st, line) ==
    LET stripped == strip(line) IN
    IF stripped = <<>> THEN
        LET a == md_close_list(st)
            b == IF a.in_table
                 THEN [a EXCEPT !.result = @ \o <<CloseTable>>, !.in_table = FALSE,
                                !.table_header_done = FALSE]
                 ELSE a
        IN  [b EXCEPT !.result = @ \o <<Blank>>]
    ELSE IF IsPipeRow(stripped) THEN
        IF IsSeparatorRow(stripped) THEN st
        ELSE IF ~st.in_table THEN
            [st EXCEPT !.result = @ \o <<OpenTable>>
                                    \o CellToks("<th>", Cells(stripped))
                                    \o <<EndHead>>,
                       !.in_table = TRUE, !.table_header_done = TRUE]
        ELSE
            [st EXCEPT !.result = @ \o <<OpenTr>>
                                    \o CellToks("<td>", Cells(stripped))
                                    \o <<CloseTr>>]
    ELSE
        LET t == md_close_table(st)
            hm == HeaderMatch(stripped)
            bm == BulletMatch(stripped)
            nm == NumberedMatch(stripped)
        IN  IF hm[1] THEN
                LET u == md_close_list(t)
                IN  [u EXCEPT !.result = @ \o <<Heading(Min(hm[2] + 2, 6), hm[3])>>]
            ELSE IF bm[1] THEN
                LET u == md_open_list(t)
                IN  [u EXCEPT !.result = @ \o <<Tok("<li>", bm[2])>>]
            ELSE IF nm[1] THEN
                LET u == md_open_list(t)
                IN  [u EXCEPT !.result = @ \o <<Tok("<li>", nm[2])>>]
            ELSE
                LET u == md_close_list(t)
                IN  [u EXCEPT !.result = @ \o <<Tok("<p>", stripped)>>]

\* after the loop: close what is still open, then "\n".join(result)
md_finish(st) ==
    Join(st.result \o (IF st.in_list THEN <<CloseUl>> ELSE <<>>)
                   \o (IF st.in_table THEN <<CloseTable>> ELSE <<>>))

RECURSIVE md_run(_, _)
md_run(st, lines) ==
    IF lines = <<>> THEN st ELSE md_run(md_step(st, Head(lines)), Tail(lines))

md_to_html(content) == md_finish(md_run(md_init, content))

\* ------------------------------------------------------------------------
\* Client-side block renderer: mdToHtml
\* ------------------------------------------------------------------------
\* returned: the early "if (!text) return ''" was taken
mdInit(content) == [inList |-> FALSE, inTable |-> FALSE, result |-> <<>>,
                    returned |-> (content = << <<>> >>)]

\* the mutation forgets to close an open list on a blank line
mdBlank_KeepList(st) ==
    LET b == IF st.inTable
             THEN [st EXCEPT !.result = @ \o <<CloseTable>>, !.inTable = FALSE]
             ELSE st
    IN  [b EXCEPT !.result = @ \o <<Blank>>]

\* if (!s) { ... continue; }
mdBlank(st) ==
    LET a == IF st.inList
             THEN [st EXCEPT !.result = @ \o <<CloseUl>>, !.inList = FALSE]
             ELSE st
        b == IF a.inTable
             THEN [a EXCEPT !.result = @ \o <<CloseTable>>, !.inTable = FALSE]
             ELSE a
    IN  [b EXCEPT !.result = @ \o <<Blank>>]

\* the body of "for (let line of lines)"
mdStep(st, line) ==
    LET s == strip(line) IN
    IF st.returned THEN st
    ELSE IF s = <<>> THEN mdBlank(st)
    ELSE IF IsPipeRow(s) THEN
        IF IsSeparatorRow(s) THEN st
        ELSE IF ~st.inTable THEN
            [st EXCEPT !.result = @ \o <<OpenTable>> \o CellToks("<th>", Cells(s))
                                    \o <<EndHead>>,
                       !.inTable = TRUE]
        ELSE
            [st EXCEPT !.result = @ \o <<OpenTr>> \o CellToks("<td>", Cells(s))
                                    \o <<CloseTr>>]
    ELSE
        LET t == IF st.inTable
                 THEN [st EXCEPT !.result = @ \o <<CloseTable>>, !.inTable = FALSE]
                 ELSE st
            closed == IF t.inList
                      THEN [t EXCEPT !.result = @ \o <<CloseUl>>, !.inList = FALSE]
                      ELSE t
            opened == IF ~t.inList
                      THEN [t EXCEPT !.result = @ \o <<OpenUl>>, !.inList = TRUE]
                      ELSE t
            hm == HeaderMatch(s)
            bm == IF BulletMatch(s)[1] THEN BulletMatch(s) ELSE NumberedMatch(s)
        IN  IF hm[1] THEN
                [closed EXCEPT !.result = @ \o <<Heading(Min(hm[2] + 2, 6), hm[3])>>]
            ELSE IF bm[1] THEN
                [opened EXCEPT !.result = @ \o <<Tok("<li>", bm[2])>>]
            ELSE
                [closed EXCEPT !.result = @ \o <<Tok("<p>", s)>>]

\* after the loop: close what is still open, then result.join('\n')
mdFinish(st) ==
    IF st.returned THEN <<>>
    ELSE Join(st.result \o (IF st.inList THEN <<CloseUl>> ELSE <<>>)
                        \o (IF st.inTable THEN <<CloseTable>> ELSE <<>>))

RECURSIVE mdRun(_, _)
mdRun(st, lines) ==
    IF lines = <<>> THEN st ELSE mdRun(mdStep(st, Head(lines)), Tail(lines))

mdToHtml(content) == mdFinish(mdRun(mdInit(content), content))

\* ------------------------------------------------------------------------
\* Inline formatters: inline_format (server) and inlineFmt (client)
\* ------------------------------------------------------------------------
\* A text is a sequence of symbols.  The words "Source:" and "Unsourced", the
\* two dashes "--" and every piece of generated markup are one symbol each;
\* no piece of markup holds a bracket, a parenthesis, a star or a backtick,
\* so a later pass reads it as ordinary characters.
CiteOpen == "<a class=\"citation\" href=\""
TargetTitle == "\" target=\"_blank\" title=\""
QuoteGt == "\">"
CloseA == "</a>"
SpanOpen == "<span class=\"unsourced\" title=\""
CloseSpan == "</span>"
LinkOpen == "<a class=\"source-link\" href=\""
TargetGt == "\" target=\"_blank\">"
Backtick == "BACKTICK"                  \* the backtick character

\* the symbol at position i, or "" beyond the ends
At(s, i) == IF i >= 1 /\ i <= Len(s) THEN s[i] ELSE ""

\* length of the longest run of symbols outside S that starts at position i
RECURSIVE RunNot(_, _, _)
RunNot(s, i, S) ==
    IF i >= 1 /\ i <= Len(s) /\ s[i] \notin S THEN 1 + RunNot(s, i + 1, S) ELSE 0

\* length of the longest run of whitespace that starts at position i
RECURSIVE RunWs(_, _)
RunWs(s, i) == IF i >= 1 /\ i <= Len(s) /\ s[i] \in WS THEN 1 + RunWs(s, i + 1) ELSE 0

\* \[Source:\s*"([^"]+)"(?:,\s*([^]]*))?\]\(([^)]+)\) tried at position i
match_citation(s, i) ==
    LET q1 == i + 2 + RunWs(s, i + 2)                 \* the opening quote
        tl == RunNot(s, q1 + 1, {"\""})
        q2 == q1 + tl + 1                             \* the closing quote
        hasExtra == At(s, q2 + 1) = ","
        e1 == q2 + 2 + RunWs(s, q2 + 2)               \* start of group 2
        el == RunNot(s, e1, {"]"})
        rb == IF hasExtra THEN e1 + el ELSE q2 + 1    \* the closing bracket
        ul == RunNot(s, rb + 2, {")"})
        rp == rb + 2 + ul                             \* the closing parenthesis
    IN  [ok |-> /\ At(s, i) = "[" /\ At(s, i + 1) = "Source:"
                /\ At(s, q1) = "\"" /\ tl >= 1 /\ At(s, q2) = "\""
                /\ At(s, rb) = "]" /\ At(s, rb + 1) = "("
                /\ ul >= 1 /\ At(s, rp) = ")",
         end |-> rp,
         title |-> SubSeq(s, q1 + 1, q2 - 1),
         extra |-> IF hasExtra THEN SubSeq(s, e1, e1 + el - 1) ELSE <<>>,
         url |-> SubSeq(s, rb + 2, rp - 1)]

\* the citation anchor: the extra part is shown only when it is not empty
citation(m) ==
    <<CiteOpen>> \o m.url \o <<TargetTitle>> \o m.title \o <<QuoteGt, "[">>
    \o m.title \o (IF m.extra # <<>> THEN <<",", " ">> \o m.extra ELSE <<>>)
    \o <<"]", CloseA>>

RECURSIVE sub_citation(_, _)
sub_citation(s, i) ==
    IF i > Len(s) THEN <<>>
    ELSE LET m == match_citation(s, i)
         IN  IF m.ok THEN citation(m) \o sub_citation(s, m.end + 1)
             ELSE <<s[i]>> \o sub_citation(s, i + 1)

\* \[Unsourced\s*--\s*([^\]]+)\] tried at position i; when nothing but
\* whitespace stands before the closing bracket, the second \s* gives its
\* last character back to the group
match_unsourced(s, i) ==
    LET d == i + 2 + RunWs(s, i + 2)                  \* the two dashes
        w2 == RunWs(s, d + 1)
        r0 == d + 1 + w2
        rl == RunNot(s, r0, {"]"})
        from == IF rl = 0 /\ w2 >= 1 THEN r0 - 1 ELSE r0
        rb == r0 + rl                                 \* the closing bracket
    IN  [ok |-> /\ At(s, i) = "[" /\ At(s, i + 1) = "Unsourced"
                /\ At(s, d) = "--" /\ rb > from /\ At(s, rb) = "]",
         end |-> rb,
         reason |-> SubSeq(s, from, rb - 1)]

unsourced(m) == <<SpanOpen>> \o m.reason \o <<QuoteGt, "[", "Unsourced", "]", CloseSpan>>

RECURSIVE sub_unsourced(_, _)
sub_unsourced(s, i) ==
    IF i > Len(s) THEN <<>>
    ELSE LET m == match_unsourced(s, i)
         IN  IF m.ok THEN unsourced(m) \o sub_unsourced(s, m.end + 1)
             ELSE <<s[i]>> \o sub_unsourced(s, i + 1)

\* \[([^\]]+)\]\(([^)]+)\) tried at position i
match_link(s, i) ==
    LET tl == RunNot(s, i + 1, {"]"})
        rb == i + 1 + tl
        ul == RunNot(s, rb + 2, {")"})
        rp == rb + 2 + ul
    IN  [ok |-> /\ At(s, i) = "[" /\ tl >= 1 /\ At(s, rb) = "]"
                /\ At(s, rb + 1) = "(" /\ ul >= 1 /\ At(s, rp) = ")",
         end |-> rp,
         label |-> SubSeq(s, i + 1, rb - 1),
         url |-> SubSeq(s, rb + 2, rp - 1)]

source_link(m) == <<LinkOpen>> \o m.url \o <<TargetGt>> \o m.label \o <<CloseA>>

RECURSIVE sub_link(_, _)
sub_link(s, i) ==
    IF i > Len(s) THEN <<>>
    ELSE LET m == match_link(s, i)
         IN  IF m.ok THEN source_link(m) \o sub_link(s, m.end + 1)
             ELSE <<s[i]>> \o sub_link(s, i + 1)

\* \*\*(.+?)\*\* tried at position i: the shortest non-empty group
match_bold(s, i) ==
    LET ends == {k \in (i + 3)..(Len(s) - 1) : s[k] = "*" /\ s[k + 1] = "*"}
        k == IF ends = {} THEN 0 ELSE CHOOSE x \in ends : \A y \in ends : x <= y
    IN  [ok |-> At(s, i) = "*" /\ At(s, i + 1) = "*" /\ ends # {},
         end |-> k + 1,
         group |-> SubSeq(s, i + 2, k - 1)]

RECURSIVE sub_bold(_, _)
sub_bold(s, i) ==
    IF i > Len(s) THEN <<>>
    ELSE LET m == match_bold(s, i)
         IN  IF m.ok THEN <<"<strong>">> \o m.group \o <<"</strong>">>
                          \o sub_bold(s, m.end + 1)
             ELSE <<s[i]>> \o sub_bold(s, i + 1)

\* the inline-code expression (backtick, one or more characters other than
\* a backtick, backtick) tried at position i
match_code(s, i) ==
    LET cl == RunNot(s, i + 1, {Backtick})
    IN  [ok |-> At(s, i) = Backtick /\ cl >= 1 /\ At(s, i + 1 + cl) = Backtick,
         end |-> i + 1 + cl,
         group |-> SubSeq(s, i + 1, i + cl)]

RECURSIVE sub_code(_, _)
sub_code(s, i) ==
    IF i > Len(s) THEN <<>>
    ELSE LET m == match_code(s, i)
         IN  IF m.ok THEN <<"<code>">> \o m.group \o <<"</code>">>
                          \o sub_code(s, m.end + 1)
             ELSE <<s[i]>> \o sub_code(s, i + 1)

\* the k-th substitution of inline_format, applied to the whole text
format_pass(k, s) ==
    CASE k = 1 -> sub_citation(s, 1)
      [] k = 2 -> sub_unsourced(s, 1)
      [] k = 3 -> sub_link(s, 1)
      [] k = 4 -> sub_bold(s, 1)
      [] OTHER -> sub_code(s, 1)

\* the k-th replace of inlineFmt: the same expression, replaced globally
fmtPass(k, t) == format_pass(k, t)

inline_format(t) ==
    format_pass(5, format_pass(4, format_pass(3, format_pass(2, format_pass(1, t)))))

inlineFmt(t) == fmtPass(5, fmtPass(4, fmtPass(3, fmtPass(2, fmtPass(1, t)))))

\* ------------------------------------------------------------------------
\* The state document (state.json)
\* ------------------------------------------------------------------------
\* an optional integer option: <<>> when not given, <<n>> when given
NoInt == <<>>
\* Python / JavaScript truthiness of an optional string and of an optional int
TruthyStr(x) == x # None /\ x # ""
TruthyInt(o) == o # NoInt /\ o[1] # 0

EmptyText == << <<>> >>                 \* the content string ""

\* load_state(): the file's document, or the defaults when there is no file
load_state ==
    IF disk # NoFile THEN disk[1]
    ELSE [topic |-> "", status |-> "in_progress", thinking |-> None,
          current_round |-> 1, total_rounds |-> 3, version |-> 0,
          entries |-> <<>>]

\* the mutation adds one to the version for every field the command changed
save_state_PerField(state) ==
    [state EXCEPT !.version =
        @ + 1 + (IF state.status # load_state.status THEN 1 ELSE 0)
              + (IF state.thinking # load_state.thinking THEN 1 ELSE 0)]

\* save_state(state): the document written to state.json
save_state(state) == [state EXCEPT !.version = @ + 1]

\* ------------------------------------------------------------------------
\* Agent registry and page rendering (build_html)
\* ------------------------------------------------------------------------
AGENT_CONFIG == {"critic", "advocate", "judge", "scribe"}

\* str.lower() / toLowerCase() on the agent names used here
lower(x) ==
    CASE x = "Judge" -> "judge"
      [] x = "None" -> "none"
      [] OTHER -> x

\* AGENT_CONFIG.get(key, AGENT_CONFIG["critic"]): the registry key whose
\* descriptor the server uses
Descriptor(agent) == IF lower(agent) \in AGENT_CONFIG THEN lower(agent) ELSE "critic"

\* the lower-case property names that AGENTS, an object literal, inherits
\* from Object.prototype
ObjectPrototype == {"constructor", "__proto__"}

\* AGENTS[agentKey] || AGENTS['critic']: a registry key, or "Object.prototype"
\* for the truthy inherited value found under an inherited name, whose
\* align, color, icon and role are undefined
AgentsOrCritic(agent) ==
    IF lower(agent) \in AGENT_CONFIG THEN lower(agent)
    ELSE IF lower(agent) \in ObjectPrototype THEN "Object.prototype"
    ELSE "critic"

\* A round divider's text
FinalSynthesis == [final |-> TRUE, n |-> 0]            \* "Final Synthesis"
RoundLabel(n) == [final |-> FALSE, n |-> n]            \* "Round <n>"
NoLabel == [final |-> FALSE, n |-> 0]

\* Elements of the feed (children of #debate-feed)
Divider(label) ==
    [kind |-> "divider", label |-> label, cfg |-> "", ts |-> "", body |-> <<>>,
     anim |-> FALSE]
Bubble(cfg, ts, body, anim) ==
    [kind |-> "bubble", label |-> NoLabel, cfg |-> cfg, ts |-> ts, body |-> body,
     anim |-> anim]
Thinking(cfg, anim) ==
    [kind |-> "thinking", label |-> NoLabel, cfg |-> cfg, ts |-> "", body |-> <<>>,
     anim |-> anim]
EmptyState ==
    [kind |-> "empty", label |-> NoLabel, cfg |-> "", ts |-> "", body |-> <<>>,
     anim |-> FALSE]

\* the status badge
Badge(status, current_round, total_rounds) ==
    IF status = "completed"
    THEN [completed |-> TRUE, cur |-> 0, total |-> 0]
    ELSE [completed |-> FALSE, cur |-> current_round, total |-> total_rounds]

\* sorted(rounds.keys())
RECURSIVE SortedSeq(_)
SortedSeq(S) ==
    IF S = {} THEN <<>>
    ELSE LET m == CHOOSE x \in S : \A y \in S : x <= y
         IN  <<m>> \o SortedSeq(S \ {m})

RoundsOf(entries) == {entries[i].round : i \in 1..Len(entries)}

\* round_label = "Final Synthesis" if round_num == 0 else f"Round {round_num}"
ssr_label(round_num) ==
    IF round_num = 0 THEN FinalSynthesis ELSE RoundLabel(round_num)

\* one server-side bubble
ssr_bubble(entry) ==
    Bubble(Descriptor(entry.agent), entry.timestamp, md_to_html(entry.content), FALSE)

\* the divider and the bubbles of one round
ssr_round(entries, round_num) ==
    LET mine == SelectSeq(entries, LAMBDA e : e.round = round_num)
    IN  <<Divider(ssr_label(round_num))>>
        \o [i \in 1..Len(mine) |-> ssr_bubble(mine[i])]

RECURSIVE ssr_rounds(_, _)
ssr_rounds(entries, order) ==
    IF order = <<>> THEN <<>>
    ELSE ssr_round(entries, Head(order)) \o ssr_rounds(entries, Tail(order))

\* the mutation emits the entries in document order, with a divider at the
\* first entry and wherever the round differs from the entry before
RECURSIVE ssr_in_order(_, _)
ssr_in_order(entries, i) ==
    IF i > Len(entries) THEN <<>>
    ELSE (IF i = 1 \/ entries[i].round # entries[i - 1].round
          THEN <<Divider(ssr_label(entries[i].round))>> ELSE <<>>)
         \o <<ssr_bubble(entries[i])>> \o ssr_in_order(entries, i + 1)

ssr_entries_InOrder(entries) == ssr_in_order(entries, 1)

\* ssr_entries: every round in ascending order, each with its entries
ssr_entries(entries) == ssr_rounds(entries, SortedSeq(RoundsOf(entries)))

\* the mutation shows the indicator whatever the status is
ssr_thinking_AnyStatus(state) ==
    IF TruthyStr(state.thinking)
    THEN <<Thinking(Descriptor(state.thinking), FALSE)>>
    ELSE <<>>

\* ssr_thinking
ssr_thinking(state) ==
    IF TruthyStr(state.thinking) /\ state.status = "in_progress"
    THEN <<Thinking(Descriptor(state.thinking), FALSE)>>
    ELSE <<>>

\* the mutation seeds the script with the version the command loaded, not
\* the version it saved
build_html_LoadedVersion(state) ==
    [topic |-> state.topic,
     badge |-> Badge(state.status, state.current_round, state.total_rounds),
     feed |-> (IF state.entries # <<>> THEN ssr_entries(state.entries)
               ELSE <<EmptyState>>) \o ssr_thinking(state),
     knownVersion |-> state.version - 1,
     isCompleted |-> (state.status = "completed"),
     renderedEntryCount |-> Len(state.entries)]

\* build_html(state): the feed and the values the script is seeded with
build_html(state) ==
    [topic |-> state.topic,
     badge |-> Badge(state.status, state.current_round, state.total_rounds),
     feed |-> (IF state.entries # <<>> THEN ssr_entries(state.entries)
               ELSE <<EmptyState>>) \o ssr_thinking(state),
     knownVersion |-> state.version,
     isCompleted |-> (state.status = "completed"),
     renderedEntryCount |-> Len(state.entries)]

\* ------------------------------------------------------------------------
\* The writer: one invocation of main()
\* ------------------------------------------------------------------------
\* the files --content-file may name: "turn.md" exists, "missing.md" does not
FileText == << <<"-", " ", "b">> >>
FileExists(path) == path = "turn.md"
InlineText == << <<"t">> >>

Topics == {"", "T"}
Statuses == {"in_progress", "completed"}
ThinkingArgs == {"none", "judge"}
RoundArgs == {<<0>>, <<2>>}
Times == {"10:00"}                          \* datetime.now().strftime("%H:%M")

\* a command line without options
NoArgs ==
    [init |-> None, add |-> FALSE, agent |-> None, round |-> NoInt,
     content_file |-> None, content |-> EmptyText, type |-> "turn",
     status |-> None, thinking |-> None, set_round |-> NoInt]

\* number of the five mutation options given on a command line
NumFlags(a) ==
    (IF a.init # None THEN 1 ELSE 0) + (IF a.add THEN 1 ELSE 0)
    + (IF a.status # None THEN 1 ELSE 0) + (IF a.thinking # None THEN 1 ELSE 0)
    + (IF a.set_round # NoInt THEN 1 ELSE 0)

\* the --add command lines: bare; with agent, round and an existing content
\* file; with round 0 and a missing content file; with inline content next
\* to a missing content file
AddArgs ==
    {[NoArgs EXCEPT !.add = TRUE],
     [NoArgs EXCEPT !.add = TRUE, !.agent = "Judge", !.round = <<2>>,
                    !.content_file = "turn.md"],
     [NoArgs EXCEPT !.add = TRUE, !.round = <<0>>, !.content_file = "missing.md"],
     [NoArgs EXCEPT !.add = TRUE, !.agent = "Judge", !.content = InlineText,
                    !.content_file = "missing.md"]}

\* the command lines the writer may issue
Commands ==
    {a \in {[b EXCEPT !.init = i, !.status = st, !.thinking = th, !.set_round = sr] :
               b \in AddArgs \cup {NoArgs}, i \in Topics \cup {None},
               st \in Statuses \cup {None}, th \in ThinkingArgs \cup {None},
               sr \in RoundArgs \cup {NoInt}} :
        NumFlags(a) <= MaxFlags}

\* the command lines drawn while a browser page is watching: one of each
\* kind of command, appends into two rounds, and the re-initialisation that
\* also sets the status
LiveCommands ==
    {[NoArgs EXCEPT !.init = "T"],
     [NoArgs EXCEPT !.init = "T", !.status = "completed"],
     [NoArgs EXCEPT !.add = TRUE],
     [NoArgs EXCEPT !.add = TRUE, !.round = <<2>>, !.agent = "Judge",
                    !.content_file = "turn.md"],
     [NoArgs EXCEPT !.add = TRUE, !.round = <<1>>, !.agent = "Judge",
                    !.content = InlineText],
     [NoArgs EXCEPT !.status = "completed"],
     [NoArgs EXCEPT !.status = "in_progress"],
     [NoArgs EXCEPT !.thinking = "judge"],
     [NoArgs EXCEPT !.thinking = "none"],
     [NoArgs EXCEPT !.set_round = <<2>>]}

\* if args.init: ...
do_init(state, a) ==
    IF TruthyStr(a.init)
    THEN [state EXCEPT !.topic = a.init, !.status = "in_progress",
                       !.thinking = None, !.current_round = 1, !.version = 0,
                       !.entries = <<>>]
    ELSE state

\* the mutation reads the content file without testing that it exists
add_content_NoExistsTest(a) ==
    IF TruthyStr(a.content_file) THEN FileText
    ELSE IF a.content # EmptyText THEN a.content
    ELSE EmptyText

\* the content of an appended entry
add_content(a) ==
    IF TruthyStr(a.content_file) /\ FileExists(a.content_file) THEN FileText
    ELSE IF a.content # EmptyText THEN a.content
    ELSE EmptyText

\* the mutation inserts the new entry at the front of the list
do_add_Front(state, a, ts) ==
    IF a.add
    THEN [state EXCEPT !.entries =
            <<[round |-> IF TruthyInt(a.round) THEN a.round[1] ELSE state.current_round,
               agent |-> IF TruthyStr(a.agent) THEN a.agent ELSE "unknown",
               content |-> add_content(a), type |-> a.type, timestamp |-> ts]>> \o @]
    ELSE state

\* if args.add: state["entries"].append({...})
do_add(state, a, ts) ==
    IF a.add
    THEN [state EXCEPT !.entries = Append(@,
            [round |-> IF TruthyInt(a.round) THEN a.round[1] ELSE state.current_round,
             agent |-> IF TruthyStr(a.agent) THEN a.agent ELSE "unknown",
             content |-> add_content(a), type |-> a.type, timestamp |-> ts])]
    ELSE state

\* the mutation makes --status also clear the thinking indicator
do_status_ClearThinking(state, a) ==
    IF TruthyStr(a.status)
    THEN [state EXCEPT !.status = a.status, !.thinking = None]
    ELSE state

\* if args.status: state["status"] = args.status
do_status(state, a) ==
    IF TruthyStr(a.status) THEN [state EXCEPT !.status = a.status] ELSE state

\* if args.thinking: None if args.thinking.lower() == "none" else args.thinking
do_thinking(state, a) ==
    IF TruthyStr(a.thinking)
    THEN [state EXCEPT !.thinking =
            IF lower(a.thinking) = "none" THEN None ELSE a.thinking]
    ELSE state

\* if args.set_round: state["current_round"] = args.set_round
do_set_round(state, a) ==
    IF TruthyInt(a.set_round) THEN [state EXCEPT !.current_round = a.set_round[1]]
    ELSE state

\* the document main() saves for command line a, started at clock time ts
\* the mutation applies the command to the document on disk at the time of
\* the save, not to the one the command loaded
main_from_Reload(loaded, a, ts) ==
    save_state(do_set_round(do_thinking(do_status(
        do_add(do_init(load_state, a), a, ts), a), a), a))

\* main() from the document it loaded to the document it saves
main_from(loaded, a, ts) ==
    save_state(do_set_round(do_thinking(do_status(
        do_add(do_init(loaded, a), a, ts), a), a), a))

main_state(a, ts) == main_from(load_state, a, ts)

\* main(): load, mutate, save, rebuild the page
Main(a, ts) ==
    LET state == main_state(a, ts)
    IN  /\ ncmds < MaxCmds
        /\ Len(state.entries) <= MaxEntries
        /\ ncmds' = ncmds + 1
        /\ disk' = <<state>>
        /\ html' = <<build_html(state)>>

\* ------------------------------------------------------------------------
\* The page's script: applyUpdate and poll
\* ------------------------------------------------------------------------
POLL_INTERVAL == 2000

\* the browser before the page is opened
NoPage ==
    [loaded |-> FALSE, feed |-> <<>>, badge |-> Badge("completed", 0, 0),
     knownVersion |-> 0, isCompleted |-> FALSE, renderedEntryCount |-> 0,
     timers |-> <<>>, inflight |-> 0, pollDot |-> "connected",
     pollText |-> "Listening for updates", outcome |-> "none"]

\* entries.slice(renderedEntryCount)
slice(entries, from) == SubSeq(entries, from + 1, Len(entries))

\* the rounds the feed's dividers stand for: /Round (\d+)/ needs digits
\* after "Round ", 'Final Synthesis' stands for round 0
renderedRounds(feed) ==
    {feed[i].label.n : i \in {j \in 1..Len(feed) :
        /\ feed[j].kind = "divider"
        /\ \/ feed[j].label.final
           \/ feed[j].label.n >= 0}}

\* let roundNum = entry.round || 1
roundNumOf(entry) == IF entry.round # 0 THEN entry.round ELSE 1

\* renderRoundDivider(roundNum)
renderRoundDivider(roundNum) ==
    Divider(IF roundNum = 0 THEN FinalSynthesis ELSE RoundLabel(roundNum))

\* renderBubble(entry, animate)
renderBubble(entry, animate) ==
    Bubble(AgentsOrCritic(entry.agent), entry.timestamp, mdToHtml(entry.content), animate)

\* the loop "for (let entry of newEntries)": the feed after the insertions
RECURSIVE appendEntries(_, _, _)
appendEntries(feed, rounds, newEntries) ==
    IF newEntries = <<>> THEN feed
    ELSE LET entry == Head(newEntries)
             roundNum == roundNumOf(entry)
             withDivider == IF roundNum \notin rounds
                            THEN Append(feed, renderRoundDivider(roundNum))
                            ELSE feed
         IN  appendEntries(Append(withDivider, renderBubble(entry, TRUE)),
                           rounds \cup {roundNum}, Tail(newEntries))

\* the mutation starts the slice one entry too early
newEntriesOf_OffByOne(c, state) ==
    slice(state.entries, IF c.renderedEntryCount > 0 THEN c.renderedEntryCount - 1 ELSE 0)

\* let newEntries = entries.slice(renderedEntryCount)
newEntriesOf(c, state) == slice(state.entries, c.renderedEntryCount)

\* applyUpdate(state) on client c
applyUpdate(c, state) ==
    LET newEntries == newEntriesOf(c, state)
        noEmpty == IF newEntries # <<>>
                   THEN SelectSeq(c.feed, LAMBDA x : x.kind # "empty")
                   ELSE c.feed
        noThinking == SelectSeq(noEmpty, LAMBDA x : x.kind # "thinking")
        appended == appendEntries(noThinking, renderedRounds(noThinking), newEntries)
        withThinking ==
            IF TruthyStr(state.thinking) /\ state.status = "in_progress"
            THEN Append(appended, Thinking(AgentsOrCritic(state.thinking), TRUE))
            ELSE appended
    IN  [c EXCEPT !.feed = withThinking,
                  !.renderedEntryCount = Len(state.entries),
                  !.badge = Badge(state.status,
                                  IF state.current_round # 0 THEN state.current_round ELSE 1,
                                  IF state.total_rounds # 0 THEN state.total_rounds ELSE 3),
                  !.isCompleted = (@ \/ state.status = "completed"),
                  !.knownVersion = state.version]

\* the mutation makes the load listener call poll() at once as well as
\* scheduling it
PageLoad_PollNow ==
    /\ html # NoFile
    /\ ~client.loaded
    /\ client' = [NoPage EXCEPT
            !.loaded = TRUE, !.feed = html[1].feed, !.badge = html[1].badge,
            !.knownVersion = html[1].knownVersion,
            !.isCompleted = html[1].isCompleted,
            !.renderedEntryCount = html[1].renderedEntryCount,
            !.timers = IF ~html[1].isCompleted THEN <<POLL_INTERVAL>> ELSE <<>>,
            !.inflight = 1,
            !.pollText = IF ~html[1].isCompleted THEN "Listening for updates"
                         ELSE "Debate complete"]
    /\ UNCHANGED <<disk, html, args, ncmds, text, lineNo, srv, cli, fmt, server, writers>>

\* window 'load': the generated page is opened and the first poll is scheduled
PageLoad ==
    /\ html # NoFile
    /\ ~client.loaded
    /\ client' = [NoPage EXCEPT
            !.loaded = TRUE, !.feed = html[1].feed, !.badge = html[1].badge,
            !.knownVersion = html[1].knownVersion,
            !.isCompleted = html[1].isCompleted,
            !.renderedEntryCount = html[1].renderedEntryCount,
            !.timers = IF ~html[1].isCompleted THEN <<POLL_INTERVAL>> ELSE <<>>,
            !.pollText = IF ~html[1].isCompleted THEN "Listening for updates"
                         ELSE "Debate complete"]
    /\ UNCHANGED <<disk, html, args, ncmds, text, lineNo, srv, cli, fmt, server, writers>>

\* a pending timeout expires: poll() starts and issues its fetch
TimerFire ==
    /\ client.timers # <<>>
    /\ client' = [client EXCEPT !.timers = Tail(@), !.inflight = @ + 1]
    /\ UNCHANGED <<disk, html, args, ncmds, text, lineNo, srv, cli, fmt, server, writers>>

\* poll() after a processed response: stop when complete, else schedule
afterPoll(c) ==
    IF c.isCompleted THEN [c EXCEPT !.pollText = "Debate complete"]
    ELSE [c EXCEPT !.timers = Append(@, POLL_INTERVAL)]

\* poll(): the fetch resolves with the document on disk
PollOk ==
    /\ client.inflight > 0
    /\ disk # NoFile
    /\ LET c0 == [client EXCEPT !.inflight = @ - 1, !.outcome = "ok"]
           c1 == IF disk[1].version # c0.knownVersion
                 THEN [applyUpdate(c0, disk[1]) EXCEPT
                          !.pollDot = "connected",
                          !.pollText = "Listening for updates"]
                 ELSE c0
       IN  client' = afterPoll(c1)
    /\ UNCHANGED <<disk, html, args, ncmds, text, lineNo, srv, cli, fmt, server, writers>>

\* the mutation doubles the delay again on every consecutive failure
backoff_Growing(c) ==
    IF c.outcome = "error" THEN 4 * POLL_INTERVAL ELSE 2 * POLL_INTERVAL

\* the delay of the attempt that follows a failed one
backoff(c) == POLL_INTERVAL * 2

\* poll(): the fetch, the HTTP status or the JSON parse fails (catch branch)
PollFail ==
    /\ client.inflight > 0
    /\ client' = [client EXCEPT
            !.inflight = @ - 1, !.outcome = "error",
            !.pollDot = "disconnected", !.pollText = "Reconnecting...",
            !.timers = Append(@, backoff(client))]
    /\ UNCHANGED <<disk, html, args, ncmds, text, lineNo, srv, cli, fmt, server, writers>>

\* ------------------------------------------------------------------------
\* Two writer commands side by side: main() split at its load and its save
\* ------------------------------------------------------------------------
\* the command lines the racing writers issue
RaceCommands ==
    {[NoArgs EXCEPT !.init = "T"],
     [NoArgs EXCEPT !.add = TRUE],
     [NoArgs EXCEPT !.add = TRUE, !.round = <<2>>, !.agent = "Judge",
                    !.content_file = "turn.md"],
     [NoArgs EXCEPT !.status = "completed"],
     [NoArgs EXCEPT !.thinking = "judge"],
     [NoArgs EXCEPT !.set_round = <<2>>]}

\* state = load_state() in the command w
Load(w, a) ==
    /\ ncmds < MaxCmds
    /\ writers.of[w].pc # "loaded"
    /\ ncmds' = ncmds + 1
    /\ writers' = [writers EXCEPT !.of[w] =
                      [pc |-> "loaded", loaded |-> <<load_state>>, a |-> a, ts |-> "",
                       loadedAt |-> writers.saves, savedAt |-> 0]]
    /\ UNCHANGED <<disk, html, args, client, text, lineNo, srv, cli, fmt, server>>

\* the rest of main() in the command w: the changes to the loaded document,
\* save_state(state) and the page
Save(w, ts) ==
    LET r == writers.of[w]
        state == main_from(r.loaded[1], r.a, ts)
    IN  /\ r.pc = "loaded"
        /\ Len(state.entries) <= MaxEntries
        /\ disk' = <<state>>
        /\ html' = <<build_html(state)>>
        /\ args' = r.a
        /\ writers' = [writers EXCEPT !.saves = @ + 1, !.before = <<load_state>>,
                          !.of[w] = [r EXCEPT !.pc = "saved", !.ts = ts,
                                                !.savedAt = writers.saves + 1]]
        /\ UNCHANGED <<ncmds, client, text, lineNo, srv, cli, fmt, server>>

\* ------------------------------------------------------------------------
\* The background server: start_server and stop_server
\* ------------------------------------------------------------------------
\* procs[p] is the state of the process with PID p, in the order of spawning:
\* "running", "signalled" (SIGTERM sent, the process not yet gone) or
\* "exited".  PIDs are not reused.
NoServer == [pid_file |-> NoFile, procs |-> <<>>]

\* stop_server(): signal the recorded process, ignore that it may be gone,
\* remove the record; os.kill returns once the signal is sent
stop_server(sv) ==
    IF sv.pid_file # NoFile
    THEN [pid_file |-> NoFile,
          procs |-> [sv.procs EXCEPT ![sv.pid_file[1]] =
                        IF @ = "running" THEN "signalled" ELSE @]]
    ELSE sv

\* start_server(): stop the recorded server, spawn a new one, record its PID
start_server(sv) ==
    LET stopped == stop_server(sv)
    IN  [pid_file |-> <<Len(stopped.procs) + 1>>,
         procs |-> Append(stopped.procs, "running")]

\* main() with --serve
StartServer ==
    /\ Len(server.procs) < MaxSpawns
    /\ server' = start_server(server)
    /\ UNCHANGED <<disk, html, args, ncmds, client, text, lineNo, srv, cli, fmt, writers>>

\* main() with --stop-server
StopServer ==
    /\ server.pid_file # NoFile
    /\ server' = stop_server(server)
    /\ UNCHANGED <<disk, html, args, ncmds, client, text, lineNo, srv, cli, fmt, writers>>

\* a signalled server process terminates (the default action of SIGTERM)
ServerExit ==
    /\ \E p \in 1..Len(server.procs) :
          /\ server.procs[p] = "signalled"
          /\ server' = [server EXCEPT !.procs[p] = "exited"]
    /\ UNCHANGED <<disk, html, args, ncmds, client, text, lineNo, srv, cli, fmt, writers>>

\* a spawned process ends on its own: HTTPServer((host, PORT), H) raises when
\* the port is taken, and nothing reads the child's exit status
ServerDies ==
    /\ \E p \in 1..Len(server.procs) :
          /\ server.procs[p] = "running"
          /\ server' = [server EXCEPT !.procs[p] = "exited"]
    /\ UNCHANGED <<disk, html, args, ncmds, client, text, lineNo, srv, cli, fmt, writers>>

\* ------------------------------------------------------------------------
\* Specifications
\* ------------------------------------------------------------------------
\* the block renderers at rest
MdIdle ==
    /\ text = EmptyText
    /\ lineNo = 0
    /\ srv = [loc |-> md_init, done |-> FALSE, ret |-> <<>>]
    /\ cli = [loc |-> mdInit(EmptyText), done |-> FALSE, ret |-> <<>>]

\* the writer commands that may run side by side
WriterIds == {1, 2}

\* no writer command is between its load and its save; saves counts the
\* saves done, before holds what a load returned just before the last save
IdleWriter ==
    [pc |-> "idle", loaded |-> NoFile, a |-> NoArgs, ts |-> "", loadedAt |-> 0,
     savedAt |-> 0]

NoWriters == [saves |-> 0, before |-> NoFile, of |-> [w \in WriterIds |-> IdleWriter]]

\* the inline formatters at rest
FmtIdle == [text |-> <<>>, pass |-> 0, server |-> <<>>, client |-> <<>>]

\* no state file, no page, no browser
Init ==
    /\ disk = NoFile
    /\ html = NoFile
    /\ args = NoArgs
    /\ ncmds = 0
    /\ client = NoPage
    /\ MdIdle
    /\ fmt = FmtIdle
    /\ server = NoServer
    /\ writers = NoWriters

\* one writer command while the page is watching
Writer ==
    /\ \E a \in LiveCommands, ts \in Times : Main(a, ts) /\ args' = a
    /\ UNCHANGED <<client, text, lineNo, srv, cli, fmt, server, writers>>

Next == Writer \/ PageLoad \/ TimerFire \/ PollOk \/ PollFail

\* the writer and one browser page
Spec == Init /\ [][Next]_vars

\* a timeout that is pending expires, and of the fetches that keep being
\* issued one succeeds in the end
Fairness == WF_vars(TimerFire) /\ SF_vars(PollOk)

\* the writer and one browser page whose timers and fetches are fair
SpecLive == Spec /\ Fairness

\* one writer command, with any command line and clock reading
Cli ==
    /\ \E a \in Commands, ts \in Times : Main(a, ts) /\ args' = a
    /\ UNCHANGED <<client, text, lineNo, srv, cli, fmt, server, writers>>

\* the writer alone
SpecCli == Init /\ [][Cli]_vars

\* one writer command that does not re-initialise, while the page is watching
WriterAppend ==
    /\ \E a \in {c \in LiveCommands : c.init = None}, ts \in Times :
          Main(a, ts) /\ args' = a
    /\ UNCHANGED <<client, text, lineNo, srv, cli, fmt, server, writers>>

NextAppend == WriterAppend \/ PageLoad \/ TimerFire \/ PollOk \/ PollFail

\* an append-only document (no re-initialisation) and one browser page
SpecAppend == Init /\ [][NextAppend]_vars

\* the same with fair timers and fetches
SpecAppendLive == SpecAppend /\ Fairness

\* ---- the two block renderers run side by side on one content string ----
Lines ==
    {<<>>,                                   \* blank
     <<" ", "*", " ", "b", " ">>,            \* bullet item, padded
     <<"-", " ", "b">>,                      \* bullet item
     <<"1", ".", " ", "n">>,                 \* numbered item
     <<"#", " ", "H">>,                      \* header
     <<"#", "#", "#", "#", "#", " ", "x">>,  \* five hashes: plain text
     <<"|", "A", "|", "B", "|">>,            \* pipe row
     <<"|", " ", "1", " ", "|", "2", "|">>,  \* pipe row, a cell padded
     <<"|", "-", "|", ":", "-", "|">>,       \* separator pipe row
     <<"|">>,                                \* pipe row without cells
     <<"t">>}                                \* plain text

\* text.split("\n") of the content strings of at most MaxLines lines
Texts == UNION {[1..n -> Lines] : n \in 1..MaxLines}

InitMd ==
    /\ disk = NoFile
    /\ html = NoFile
    /\ args = NoArgs
    /\ ncmds = 0
    /\ client = NoPage
    /\ text \in Texts
    /\ lineNo = 0
    /\ srv = [loc |-> md_init, done |-> FALSE, ret |-> <<>>]
    /\ cli = [loc |-> mdInit(text), done |-> FALSE, ret |-> <<>>]
    /\ fmt = FmtIdle
    /\ server = NoServer
    /\ writers = NoWriters

\* both renderers consume the next line
MdLine ==
    /\ lineNo < Len(text)
    /\ lineNo' = lineNo + 1
    /\ srv' = [srv EXCEPT !.loc = md_step(@, text[lineNo + 1])]
    /\ cli' = [cli EXCEPT !.loc = mdStep(@, text[lineNo + 1])]
    /\ UNCHANGED <<disk, html, args, ncmds, client, text, fmt, server, writers>>

\* end of input: both renderers close what is open and return
MdReturn ==
    /\ lineNo = Len(text)
    /\ ~srv.done
    /\ srv' = [srv EXCEPT !.done = TRUE, !.ret = md_finish(srv.loc)]
    /\ cli' = [cli EXCEPT !.done = TRUE, !.ret = mdFinish(cli.loc)]
    /\ UNCHANGED <<disk, html, args, ncmds, client, text, lineNo, fmt, server, writers>>

NextMd == MdLine \/ MdReturn

SpecMd == InitMd /\ [][NextMd]_vars

\* ---- the two inline formatters run side by side on one text ----
Fragments ==
    {<<"[", "Source:", " ", "\"", "X", "\"", ",", " ", "Y", "]", "(", "u", ")">>,
     <<"[", "Source:", "\"", "X", "\"", "]", "(", "u", ")">>,  \* citation, no extra
     <<"[", "Source:", "\"", "a", "]", "(", "b", ")", "\"", "]", "(", "u", ")">>,
     <<"[", "Unsourced", " ", "--", " ", "r", "]">>,          \* unsourced marker
     <<"[", "t", "]", "(", "u", ")">>,                         \* generic link
     <<"(", "u", ")">>,                                        \* a parenthesis
     <<"[", "t">>,                                             \* an open bracket
     <<"]">>,
     <<"*", "*", "b", "*", "*">>,                              \* bold
     <<Backtick, "c", Backtick>>,                              \* inline code
     <<"x">>}                                                  \* plain text

RECURSIVE Flatten(_)
Flatten(parts) == IF parts = <<>> THEN <<>> ELSE Head(parts) \o Flatten(Tail(parts))

\* the texts made of at most MaxParts fragments
InlineTexts == {Flatten(ps) : ps \in UNION {[1..n -> Fragments] : n \in 1..MaxParts}}

InitInline ==
    /\ disk = NoFile
    /\ html = NoFile
    /\ args = NoArgs
    /\ ncmds = 0
    /\ client = NoPage
    /\ MdIdle
    /\ fmt \in {[text |-> t, pass |-> 0, server |-> t, client |-> t] : t \in InlineTexts}
    /\ server = NoServer
    /\ writers = NoWriters

\* both formatters apply their next substitution to what they have so far
FmtPass ==
    /\ fmt.pass < 5
    /\ fmt' = [fmt EXCEPT !.pass = @ + 1,
                          !.server = format_pass(fmt.pass + 1, @),
                          !.client = fmtPass(fmt.pass + 1, @)]
    /\ UNCHANGED <<disk, html, args, ncmds, client, text, lineNo, srv, cli, server, writers>>

SpecInline == InitInline /\ [][FmtPass]_vars

\* ---- the --serve and --stop-server commands and the spawned processes ----
NextServe == StartServer \/ StopServer \/ ServerExit \/ ServerDies

SpecServe == Init /\ [][NextServe]_vars

\* ---- two writer commands whose loads and saves interleave ----
NextRace ==
    \/ \E w \in WriterIds, a \in RaceCommands : Load(w, a)
    \/ \E w \in WriterIds, ts \in Times : Save(w, ts)

SpecRace == Init /\ [][NextRace]_vars

\* ---- a given document: its fresh page against a page loaded earlier ----
\* the (round, agent) pairs of seeded entries: the rounds 1 and 2, the final
\* synthesis and a negative round; a registry key, one in another case, an
\* unknown key and a name every object inherits
SeedKinds ==
    {<<1, "Judge">>, <<2, "mediator">>, <<0, "critic">>, <<1, "constructor">>,
     <<-1, "critic">>}
SeedTimes == <<"10:01", "10:02", "10:03", "10:04">>

\* documents as state.json may hold them: entries of any round and agent,
\* the i-th appended at SeedTimes[i], saved once at initialisation and once
\* per entry
SeedDocs ==
    {[topic |-> "T", status |-> st, thinking |-> None, current_round |-> 1,
      total_rounds |-> 3, version |-> Len(rs) + 1,
      entries |-> [i \in 1..Len(rs) |->
                     [round |-> rs[i][1], agent |-> rs[i][2], content |-> InlineText,
                      type |-> "turn", timestamp |-> SeedTimes[i]]]] :
        st \in Statuses,
        rs \in UNION {[1..n -> SeedKinds] : n \in 1..MaxSeedEntries}}

\* the document when it held only its first j entries
PrefixDoc(d, j) ==
    [d EXCEPT !.entries = SubSeq(@, 1, j), !.version = j + 1,
              !.status = IF j < Len(d.entries) THEN "in_progress" ELSE @]

InitRender ==
    /\ disk \in {<<d>> : d \in SeedDocs}
    /\ html = NoFile
    /\ args = NoArgs
    /\ ncmds = 0
    /\ client = NoPage
    /\ MdIdle
    /\ fmt = FmtIdle
    /\ server = NoServer
    /\ writers = NoWriters

\* the page is generated from the document as it is now
Render ==
    /\ html = NoFile
    /\ html' = <<build_html(disk[1])>>
    /\ UNCHANGED <<disk, args, ncmds, client, text, lineNo, srv, cli, fmt, server, writers>>

\* the browser holds the page generated when the document had j entries
LoadEarlier ==
    /\ ~client.loaded
    /\ \E j \in 0..Len(disk[1].entries) :
          LET page == build_html(PrefixDoc(disk[1], j))
          IN  client' = [NoPage EXCEPT
                !.loaded = TRUE, !.feed = page.feed, !.badge = page.badge,
                !.knownVersion = page.knownVersion,
                !.isCompleted = page.isCompleted,
                !.renderedEntryCount = page.renderedEntryCount,
                !.timers = IF ~page.isCompleted THEN <<POLL_INTERVAL>> ELSE <<>>,
                !.pollText = IF ~page.isCompleted THEN "Listening for updates"
                             ELSE "Debate complete"]
    /\ UNCHANGED <<disk, html, args, ncmds, text, lineNo, srv, cli, fmt, server, writers>>

NextRender == Render \/ LoadEarlier \/ TimerFire \/ PollOk \/ PollFail

SpecRender == InitRender /\ [][NextRender]_vars

\* ------------------------------------------------------------------------
\* Claims
\* ------------------------------------------------------------------------
HasTok(pieces, t) == \E i \in 1..Len(pieces) : pieces[i] = t

Shape(feed) ==
    LET kept == SelectSeq(feed, LAMBDA x : x.kind \in {"divider", "bubble"})
    IN  [i \in 1..Len(kept) |-> [kept[i] EXCEPT !.anim = FALSE]]

\* the page in the browser has rendered or applied the document on disk
UpToDate ==
    /\ client.loaded /\ disk # NoFile /\ html # NoFile
    /\ client.knownVersion = disk[1].version
    /\ client.renderedEntryCount = Len(disk[1].entries)

\* C2: the feed of the freshly generated page holds the same sequence of
\* round dividers and entry bubbles as the feed of a page that was loaded
\* earlier and received the same entries through applyUpdate.
C2_FreshEqualsLive == UpToDate => Shape(client.feed) = Shape(html[1].feed)

\* what a bubble shows of its entry
BubbleKey(b) == <<b.cfg, b.ts, b.body>>
EntryKey(e) == <<AgentsOrCritic(e.agent), e.timestamp, mdToHtml(e.content)>>
Bubbles(feed) == SelectSeq(feed, LAMBDA x : x.kind = "bubble")
BubbleKeys(feed) == [i \in 1..Len(Bubbles(feed)) |-> BubbleKey(Bubbles(feed)[i])]
EntryKeys(entries) == [i \in 1..Len(entries) |-> EntryKey(entries[i])]
Count(seq, k) == Cardinality({i \in 1..Len(seq) : seq[i] = k})

\* applyUpdate ran in this step (it is the only code that moves knownVersion
\* of a loaded page)
Applied == client.loaded /\ client'.knownVersion # client.knownVersion

\* C3 (step): applyUpdate on a page that rendered E entries, given a document
\* of E+k entries, appends the bubbles of exactly the last k entries, in
\* document order, after the bubbles already shown, and sets the count to E+k.
C3_Step ==
    Applied =>
        /\ client'.renderedEntryCount = Len(disk[1].entries)
        /\ BubbleKeys(client'.feed) =
              BubbleKeys(client.feed)
              \o EntryKeys(slice(disk[1].entries, client.renderedEntryCount))

\* C3 (state): against an append-only document the page shows each of the
\* first renderedEntryCount entries exactly once and nothing else.
C3_Once ==
    client.loaded =>
        /\ client.renderedEntryCount <= Len(disk[1].entries)
        /\ Len(Bubbles(client.feed)) = client.renderedEntryCount
        /\ \A k \in {EntryKey(disk[1].entries[i]) : i \in 1..Len(disk[1].entries)} :
              Count(BubbleKeys(client.feed), k) =
              Count(EntryKeys(SubSeq(disk[1].entries, 1, client.renderedEntryCount)), k)

\* C3: applyUpdate inserts exactly the entries beyond the rendered count,
\* once each and in order; after any polls of an append-only document no
\* entry is shown twice, skipped or moved.
C3_AppendOffset == [][C3_Step]_vars /\ []C3_Once

\* a page that showed an entry when it was loaded has appended another
\* one through a poll and now shows MaxEntries entries
C3_Witness ==
    /\ client.loaded /\ client.outcome = "ok"
    /\ client.renderedEntryCount = MaxEntries
    /\ Len(SelectSeq(client.feed, LAMBDA x : x.kind = "bubble" /\ x.anim)) >= 1
    /\ Len(SelectSeq(client.feed, LAMBDA x : x.kind = "bubble" /\ ~x.anim)) >= 1

\* the text of the nearest divider before position i of a feed
RECURSIVE SectionAt(_, _)
SectionAt(feed, i) ==
    IF i = 0 THEN NoLabel
    ELSE IF feed[i].kind = "divider" THEN feed[i].label
    ELSE SectionAt(feed, i - 1)

\* every bubble of feed that shows a round-0 entry of the document stands
\* under a divider reading "Final Synthesis"
Round0UnderFinal(feed, entries) ==
    \A i \in 1..Len(feed), j \in 1..Len(entries) :
        (feed[i].kind = "bubble" /\ feed[i].ts = entries[j].timestamp
            /\ entries[j].round = 0)
        => SectionAt(feed, i) = FinalSynthesis

\* C4 (server): in the generated page a round-0 entry stands under "Final Synthesis"
C4_Server == html # NoFile => Round0UnderFinal(html[1].feed, disk[1].entries)

\* C4: an entry with round 0 stands under a divider labelled "Final
\* Synthesis", in the generated page and in the feed the client appends to.
C4_Round0Label ==
    /\ C4_Server
    /\ client.loaded => Round0UnderFinal(client.feed, disk[1].entries)

\* a writer command ran in this step; args' is its command line and
\* load_state the document it loaded
Ran == ncmds' # ncmds
\* the command did not initialise (no --init, or --init with an empty topic)
NotInit == ~TruthyStr(args'.init)
\* the command line gave this one option and no other
Only(a, flag) ==
    /\ NumFlags(a) = 1
    /\ CASE flag = "init" -> a.init # None
         [] flag = "add" -> a.add
         [] flag = "status" -> a.status # None
         [] flag = "thinking" -> a.thinking # None
         [] flag = "set_round" -> a.set_round # NoInt

IsPrefix(p, q) == Len(p) <= Len(q) /\ SubSeq(q, 1, Len(p)) = p

\* C5: every saving command that is not an initialize leaves the persisted
\* version exactly one above the version it loaded, however many fields it
\* changed; so N such commands from version V0 end at V0+N and the version
\* never decreases.
C5_VersionPlusOne ==
    [][(Ran /\ NotInit) => disk'[1].version = load_state.version + 1]_vars

\* two commands without --init have run, the last one changing two fields
C5_Witness ==
    /\ ncmds = 2 /\ disk[1].version = 2
    /\ args.init = None /\ args.status = "completed" /\ args.thinking = "judge"
    /\ disk[1].status = "completed" /\ disk[1].thinking = "judge"

\* C6: from any persisted state, a command line holding only --init T leaves
\* a document with topic T, status in_progress, no thinking agent,
\* current_round 1, no entries and version 1.
C6_InitRoundTrip ==
    (ncmds > 0 /\ Only(args, "init")) =>
        /\ disk[1].topic = args.init
        /\ disk[1].status = "in_progress"
        /\ disk[1].thinking = None
        /\ disk[1].current_round = 1
        /\ disk[1].entries = <<>>
        /\ disk[1].version = 1

\* C6 for a non-empty topic
C6_NonEmptyTopic == TruthyStr(args.init) => C6_InitRoundTrip

\* C7: a command that is not an initialize keeps the loaded entries as an
\* unchanged prefix; --add puts exactly one entry after them, any other
\* command none.
C7_EntriesOnlyGrow ==
    [][(Ran /\ NotInit) =>
          /\ IsPrefix(load_state.entries, disk'[1].entries)
          /\ Len(disk'[1].entries) =
                Len(load_state.entries) + (IF args'.add THEN 1 ELSE 0)]_vars

\* an --add without --init has put a second, different entry after the first
C7_Witness ==
    /\ disk # NoFile /\ args.add /\ args.init = None
    /\ Len(disk[1].entries) = 2
    /\ disk[1].entries[1] # disk[1].entries[2]

\* the fields of the loaded and the saved document that a command with the
\* one option flag must leave alone
Frame(flag, d) ==
    CASE flag = "status" ->
            <<d.topic, d.entries, d.thinking, d.current_round, d.total_rounds>>
      [] flag = "thinking" ->
            <<d.topic, d.entries, d.status, d.current_round, d.total_rounds>>
      [] flag = "set_round" ->
            <<d.topic, d.entries, d.status, d.thinking, d.total_rounds>>
      [] flag = "add" ->
            <<d.topic, d.status, d.thinking, d.current_round, d.total_rounds>>

\* C8: no command other than an initialize changes the topic; a command with
\* only --status, only --thinking, only --set-round or only --add changes,
\* besides the version, nothing but its own field.
C8_Frame ==
    [][Ran =>
          /\ NotInit => disk'[1].topic = load_state.topic
          /\ \A flag \in {"status", "thinking", "set_round", "add"} :
                Only(args', flag) => Frame(flag, disk'[1]) = Frame(flag, load_state)]_vars

\* a lone --status has completed a debate in which an agent was thinking
C8_Witness ==
    /\ disk # NoFile /\ Only(args, "status")
    /\ disk[1].status = "completed" /\ disk[1].thinking = "judge"
    /\ disk[1].topic = "T"

\* poll() resolved in this step, with a parsed response / with a failure
PollSucceeded == client'.inflight < client.inflight /\ client'.outcome = "ok"
PollFailed == client'.inflight < client.inflight /\ client'.outcome = "error"

\* C9: a poll that fetches a document whose status is completed leaves no
\* poll scheduled (and so no fetch follows).
C9_StopsOnCompleted ==
    [][(PollSucceeded /\ disk[1].status = "completed")
          => (client'.timers = <<>> /\ client'.inflight = 0)]_vars

\* C9, the part the code keeps: a page that has seen completion has no timer
\* pending and no fetch in flight
C9_StoppedIsTerminal ==
    (client.loaded /\ client.isCompleted) =>
        (client.timers = <<>> /\ client.inflight = 0)

\* C10: a failed poll marks the indicator disconnected and leaves exactly one
\* attempt scheduled, at twice the normal interval whatever came before; a
\* successful poll leaves at most one attempt scheduled, at the normal
\* interval.
C10_FixedBackoff ==
    [][/\ PollFailed =>
            /\ client'.pollDot = "disconnected"
            /\ client'.timers = <<2 * POLL_INTERVAL>>
       /\ PollSucceeded =>
            /\ client'.timers \in {<<>>, <<POLL_INTERVAL>>}
            /\ client'.timers = <<>> => client'.isCompleted]_vars

\* a poll has failed and the next attempt waits at the backoff interval
C10_Witness ==
    /\ client.loaded /\ client.outcome = "error"
    /\ client.pollDot = "disconnected"
    /\ client.timers = <<2 * POLL_INTERVAL>>

\* C11: in a page at most one poll is pending or in flight (a timer waiting
\* or a fetch unresolved, never both and never two); a timer is scheduled
\* only by the load listener or by the step that resolves a poll attempt,
\* and only when no other timer is pending and no fetch stays unresolved.
C11_OnePollAtATime ==
    /\ [](Len(client.timers) + client.inflight <= 1)
    /\ [][Len(client'.timers) > Len(client.timers) =>
            /\ client.timers = <<>> /\ client'.inflight = 0
            /\ \/ ~client.loaded /\ client'.loaded
               \/ PollSucceeded \/ PollFailed]_vars

\* a fetch is in flight, started by the timer that an earlier attempt scheduled
C11_Witness ==
    /\ client.loaded /\ client.inflight = 1 /\ client.timers = <<>>
    /\ client.outcome # "none"

\* C12: once a command has completed, the generated page matches the saved
\* document: state.json and the page exist together, the page's knownVersion
\* is the saved version, its renderedEntryCount is the number of saved
\* entries and also the number of bubbles in its feed, and its isCompleted
\* flag is set exactly when the saved status is completed.
C12_PageMatchesDocument ==
    /\ (disk = NoFile) <=> (html = NoFile)
    /\ html # NoFile =>
          /\ html[1].knownVersion = disk[1].version
          /\ html[1].renderedEntryCount = Len(disk[1].entries)
          /\ Len(Bubbles(html[1].feed)) = Len(disk[1].entries)
          /\ html[1].isCompleted <=> (disk[1].status = "completed")

\* the last of MaxCmds commands has completed a debate of MaxEntries entries
C12_Witness ==
    /\ ncmds = MaxCmds /\ html # NoFile
    /\ html[1].isCompleted /\ html[1].renderedEntryCount = MaxEntries
    /\ html[1].knownVersion = MaxCmds

\* some non-separator pipe row stands among the consecutive pipe rows that
\* end at line k of the text
RECURSIVE HeaderSeen(_)
HeaderSeen(k) ==
    IF k = 0 THEN FALSE
    ELSE LET s == strip(text[k])
         IN  IF ~IsPipeRow(s) THEN FALSE
             ELSE IF ~IsSeparatorRow(s) THEN TRUE
             ELSE HeaderSeen(k - 1)

\* C13 (step): on a pipe row, either renderer does the following.  A
\* separator row changes nothing.  The first other row of a run of
\* consecutive pipe rows opens the table with that row's cells as header
\* cells; every later one adds one body row to the open table.
C13_Step ==
    (lineNo' = lineNo + 1 /\ IsPipeRow(strip(text[lineNo + 1]))) =>
        LET s == strip(text[lineNo + 1])
            head == <<OpenTable>> \o CellToks("<th>", Cells(s)) \o <<EndHead>>
            body == <<OpenTr>> \o CellToks("<td>", Cells(s)) \o <<CloseTr>>
        IN  IF IsSeparatorRow(s) THEN srv'.loc = srv.loc /\ cli'.loc = cli.loc
            ELSE /\ srv'.loc.in_table /\ cli'.loc.inTable
                 /\ srv'.loc.in_list = srv.loc.in_list
                 /\ cli'.loc.inList = cli.loc.inList
                 /\ IF HeaderSeen(lineNo)
                    THEN /\ srv.loc.in_table /\ cli.loc.inTable
                         /\ srv'.loc.result = srv.loc.result \o body
                         /\ cli'.loc.result = cli.loc.result \o body
                    ELSE /\ ~srv.loc.in_table /\ ~cli.loc.inTable
                         /\ srv'.loc.result = srv.loc.result \o head
                         /\ cli'.loc.result = cli.loc.result \o head

\* the rows |A|B|, |-|:-|, | 1 |2| and what they are rendered as
TableRows ==
    << <<"|", "A", "|", "B", "|">>, <<"|", "-", "|", ":", "-", "|">>,
       <<"|", " ", "1", " ", "|", "2", "|">> >>
TableHtml ==
    <<OpenTable, NL, Tok("<th>", <<"A">>), NL, Tok("<th>", <<"B">>), NL, EndHead, NL,
      OpenTr, NL, Tok("<td>", <<"1">>), NL, Tok("<td>", <<"2">>), NL, CloseTr, NL,
      CloseTable>>

\* C13 (example): header row, separator row, body row give one header row
\* with cells A, B and one body row with cells 1, 2; the separator gives nothing
C13_Example ==
    (text = TableRows /\ srv.done /\ cli.done) =>
        (srv.ret = TableHtml /\ cli.ret = TableHtml)

\* C13: in both block renderers a run of consecutive pipe rows is one table,
\* its first non-separator row the header (once), every later non-separator
\* row a body row, and a separator row produces no output and changes no
\* open state, whether or not a table is open.
C13_TableRows == [][C13_Step]_vars /\ []C13_Example

\* the three example rows have been rendered by both renderers
C13_Witness == text = TableRows /\ srv.done /\ cli.done /\ srv.ret # <<>>

\* the text opens with a citation / with an unsourced marker
CitationFirst == match_citation(fmt.text, 1).ok
UnsourcedFirst == match_unsourced(fmt.text, 1).ok
NoSourceLink(out) == \A i \in 1..Len(out) : out[i] # LinkOpen

\* C14: the passes run citation, unsourced marker, generic link, bold, inline
\* code, each on the output of the one before, so that once the generic-link
\* pass has run a citation stands as the citation anchor the first pass wrote
\* and an unsourced marker as the span the second pass wrote, and a text that
\* is one citation or one unsourced marker ends up without any source-link.
C14_PassOrder ==
    \A out \in {fmt.server, fmt.client} :
        /\ (fmt.pass = 3 /\ CitationFirst) =>
              IsPrefix(citation(match_citation(fmt.text, 1)), out)
        /\ (fmt.pass = 3 /\ UnsourcedFirst) =>
              IsPrefix(unsourced(match_unsourced(fmt.text, 1)), out)
        /\ (fmt.pass = 5 /\ CitationFirst
                /\ match_citation(fmt.text, 1).end = Len(fmt.text)) =>
              (Head(out) = CiteOpen /\ NoSourceLink(out))
        /\ (fmt.pass = 5 /\ UnsourcedFirst
                /\ Drop(fmt.text, match_unsourced(fmt.text, 1).end)
                      \in {<<>>, <<"(", "u", ")">>}) =>
              (Head(out) = SpanOpen /\ NoSourceLink(out))

\* C14 for every text but a citation whose title holds a closing bracket
C14_PlainTitle ==
    (CitationFirst /\ \E i \in 1..Len(match_citation(fmt.text, 1).title) :
                          match_citation(fmt.text, 1).title[i] = "]")
    \/ C14_PassOrder

\* the bubble of feed that shows entry e (timestamps of seeded entries differ)
BubblesOf(feed, e) == SelectSeq(feed, LAMBDA x : x.kind = "bubble" /\ x.ts = e.timestamp)

\* every entry among the first n of the document has exactly one bubble in
\* feed, with the descriptor of its lower-cased agent key when the registry
\* has it and the critic descriptor otherwise, and with its rendered content
FallbackIn(feed, n) ==
    \A j \in 1..n :
        LET e == disk[1].entries[j]
            want == IF lower(e.agent) \in AGENT_CONFIG THEN lower(e.agent) ELSE "critic"
        IN  /\ Len(BubblesOf(feed, e)) = 1
            /\ BubblesOf(feed, e)[1].cfg = want
            /\ BubblesOf(feed, e)[1].body = md_to_html(e.content)

\* C15 (server): the generated page
C15_Server == html # NoFile => FallbackIn(html[1].feed, Len(disk[1].entries))

\* C15: on both render paths an entry whose agent key is not in the registry
\* is rendered, with its content and timestamp, under the critic descriptor,
\* and a key that differs from a registry key only by case under that key's
\* descriptor.
C15_UnknownAgent ==
    /\ C15_Server
    /\ client.loaded => FallbackIn(client.feed, client.renderedEntryCount)

\* C15 for agent keys that Object.prototype does not define
C15_OwnKeys ==
    (\A j \in 1..Len(disk[1].entries) :
        lower(disk[1].entries[j].agent) \notin ObjectPrototype)
    => C15_UnknownAgent

\* positions of the dividers / of the bubble of the j-th entry in a feed
DividerAt(feed) == {i \in 1..Len(feed) : feed[i].kind = "divider"}
BubbleAt(feed, entries, j) ==
    {i \in 1..Len(feed) : feed[i].kind = "bubble" /\ feed[i].ts = entries[j].timestamp}

\* feed shows the first n entries with at most one divider per round, every
\* bubble under the divider of its entry's round, and the bubbles of one
\* round in insertion order
RoundSections(feed, entries, n) ==
    /\ \A i, k \in DividerAt(feed) : feed[i].label = feed[k].label => i = k
    /\ \A j \in 1..n : \A i \in BubbleAt(feed, entries, j) :
          SectionAt(feed, i) = ssr_label(entries[j].round)
    /\ \A j, k \in 1..n :
          (j < k /\ entries[j].round = entries[k].round) =>
              \A i \in BubbleAt(feed, entries, j), l \in BubbleAt(feed, entries, k) : i < l

\* C16 (server): the generated page
C16_Server ==
    html # NoFile => RoundSections(html[1].feed, disk[1].entries, Len(disk[1].entries))

\* C16: in the feed, at the initial render and after any live updates, each
\* round has at most one divider, every entry's bubble stands in the section
\* of its own round, and within a round the entries are in insertion order.
C16_RoundSections ==
    /\ C16_Server
    /\ client.loaded =>
          RoundSections(client.feed, disk[1].entries, client.renderedEntryCount)

\* C16 on documents whose rounds are all 1 or more: does not hold either
C16_PositiveRounds ==
    (\A j \in 1..Len(disk[1].entries) : disk[1].entries[j].round >= 1)
    => C16_RoundSections

\* C16, first part, on documents without a negative round
C16_OneDivider ==
    (client.loaded /\ \A j \in 1..Len(disk[1].entries) : disk[1].entries[j].round >= 0)
    => \A i, k \in DividerAt(client.feed) :
          client.feed[i].label = client.feed[k].label => i = k

\* the positions of the bubbles of a feed, and the index in entries of the
\* entry that the bubble at position i shows
BubblePos(feed) == {i \in 1..Len(feed) : feed[i].kind = "bubble"}
EntryIx(feed, entries, i) ==
    CHOOSE j \in 1..Len(entries) : entries[j].timestamp = feed[i].ts
RoundAt(feed, entries, i) == entries[EntryIx(feed, entries, i)].round

\* every entry has one bubble, every divider stands directly before a bubble
\* and carries the label of that bubble's round
WellLabelled(feed, entries) ==
    /\ \A j \in 1..Len(entries) : Cardinality(BubbleAt(feed, entries, j)) = 1
    /\ Cardinality(BubblePos(feed)) = Len(entries)
    /\ \A i \in DividerAt(feed) :
          /\ i + 1 \in BubblePos(feed)
          /\ feed[i].label = ssr_label(RoundAt(feed, entries, i + 1))

\* a divider stands before the bubble at position i exactly when no bubble
\* comes before it or the bubble before it shows another round
DividerAtChange(feed, entries) ==
    \A i \in BubblePos(feed) :
        LET before == {k \in BubblePos(feed) : k < i}
            prev == CHOOSE k \in before : \A m \in before : m <= k
        IN  (i - 1 \in DividerAt(feed)) <=>
                (before = {} \/ RoundAt(feed, entries, prev) # RoundAt(feed, entries, i))

\* C17 as stated: the pre-render emits the entries in document order, with
\* a divider exactly at the first entry and at every entry whose round
\* differs from the round of the entry before it in the document.
C17_DocumentOrder ==
    html # NoFile =>
        LET F == html[1].feed
            E == disk[1].entries
        IN  /\ WellLabelled(F, E)
            /\ \A i, k \in BubblePos(F) :
                  i < k => EntryIx(F, E, i) < EntryIx(F, E, k)
            /\ DividerAtChange(F, E)

\* C17, amended: the pre-render emits the entries grouped by round, the
\* rounds in ascending order and the entries of one round in insertion
\* order, with a divider exactly at the first emitted entry and at every
\* emitted entry whose round differs from the one emitted before it.
C17_GroupedByRound ==
    html # NoFile =>
        LET F == html[1].feed
            E == disk[1].entries
        IN  /\ WellLabelled(F, E)
            /\ \A i, k \in BubblePos(F) :
                  i < k =>
                      \/ RoundAt(F, E, i) < RoundAt(F, E, k)
                      \/ /\ RoundAt(F, E, i) = RoundAt(F, E, k)
                         /\ EntryIx(F, E, i) < EntryIx(F, E, k)
            /\ DividerAtChange(F, E)

\* a page generated from a document in which a round receives an entry after
\* a later round did
C17_Witness ==
    /\ html # NoFile /\ Len(disk[1].entries) = 3
    /\ disk[1].entries[1].round = 1 /\ disk[1].entries[2].round = 2
    /\ disk[1].entries[3].round = 1
    /\ Len(html[1].feed) = 5

\* the positions of the thinking indicators of a feed
ThinkingAt(feed) == {i \in 1..Len(feed) : feed[i].kind = "thinking"}
\* the document says an agent is thinking in a debate in progress
IsThinking(d) == TruthyStr(d.thinking) /\ d.status = "in_progress"

\* C18 (step): the page's feed changes only when the page is loaded or an
\* update is applied, and then it shows a thinking indicator exactly when the
\* document rendered or applied has thinking set and status in_progress.
C18_Step ==
    /\ ((~client.loaded /\ client'.loaded) \/ Applied) =>
          ((ThinkingAt(client'.feed) # {}) <=> IsThinking(disk[1]))
    /\ (client.loaded /\ ~Applied) => client'.feed = client.feed

\* C18 (state): the generated page and the page in the browser hold at most
\* one thinking indicator, and it is the last element of the feed.
C18_Last ==
    /\ html # NoFile =>
          /\ ThinkingAt(html[1].feed) \subseteq {Len(html[1].feed)}
          /\ (ThinkingAt(html[1].feed) # {}) <=> IsThinking(disk[1])
    /\ ThinkingAt(client.feed) \subseteq {Len(client.feed)}

\* C18: the feed shows a thinking indicator exactly when the document most
\* recently rendered or applied has thinking set and status in_progress;
\* there is never more than one, and it comes last, after every bubble.
C18_ThinkingIndicator == [][C18_Step]_vars /\ []C18_Last

\* an update has appended an entry and put the indicator after the new bubble
C18_Witness ==
    /\ client.loaded /\ client.outcome = "ok" /\ Len(client.feed) >= 3
    /\ client.feed[Len(client.feed)].kind = "thinking"
    /\ client.feed[Len(client.feed)].anim
    /\ client.feed[Len(client.feed) - 1].kind = "bubble"
    /\ client.feed[Len(client.feed) - 1].anim

\* the markup of tokens is well nested: every closing tag closes the element
\* opened last, and nothing is left open (open is the stack of open elements)
RECURSIVE Nested(_, _)
Nested(tokens, open) ==
    IF tokens = <<>> THEN open = <<>>
    ELSE LET t == Head(tokens)
         IN  IF t \in {OpenUl, OpenTable} THEN Nested(Tail(tokens), <<t>> \o open)
             ELSE IF t = CloseUl
                  THEN open # <<>> /\ Head(open) = OpenUl /\ Nested(Tail(tokens), Tail(open))
             ELSE IF t = CloseTable
                  THEN open # <<>> /\ Head(open) = OpenTable
                       /\ Nested(Tail(tokens), Tail(open))
             ELSE Nested(Tail(tokens), open)

NumTok(tokens, t) == Cardinality({i \in 1..Len(tokens) : tokens[i] = t})

\* the line consumed last, and whether it is a list item
LastLine == strip(text[lineNo])
IsItem(s) == ~IsPipeRow(s) /\ ~HeaderMatch(s)[1] /\ (BulletMatch(s)[1] \/ NumberedMatch(s)[1])

\* C19: in both block renderers a list and a table are never open together;
\* after a line that is not a list item no list is open, after a line that
\* is not a pipe row no table is open; what is returned is well nested, with
\* every opened list and table closed once and nothing left open.
C19_WellNested ==
    /\ ~(srv.loc.in_list /\ srv.loc.in_table)
    /\ ~(cli.loc.inList /\ cli.loc.inTable)
    /\ (lineNo >= 1 /\ ~IsItem(LastLine)) => (~srv.loc.in_list /\ ~cli.loc.inList)
    /\ (lineNo >= 1 /\ ~IsPipeRow(LastLine)) => (~srv.loc.in_table /\ ~cli.loc.inTable)
    /\ (srv.done /\ cli.done) => (Nested(srv.ret, <<>>) /\ Nested(cli.ret, <<>>))

\* C19, the parts the code keeps: a blank line, a header and a plain line close
\* an open list, every line but a pipe row closes an open table, and what is
\* returned closes every list and table it opened
C19_Balanced ==
    /\ (lineNo >= 1 /\ ~IsItem(LastLine) /\ ~IsPipeRow(LastLine)) =>
          (~srv.loc.in_list /\ ~cli.loc.inList)
    /\ (lineNo >= 1 /\ ~IsPipeRow(LastLine)) => (~srv.loc.in_table /\ ~cli.loc.inTable)
    /\ (srv.done /\ cli.done) =>
          \A out \in {srv.ret, cli.ret} :
              /\ NumTok(out, OpenUl) = NumTok(out, CloseUl)
              /\ NumTok(out, OpenTable) = NumTok(out, CloseTable)

\* the command line names a content file that does not exist
MissingFile(a) == a.add /\ TruthyStr(a.content_file) /\ ~FileExists(a.content_file)

\* what an --add with a missing content file does, given the content the
\* new entry must carry: the command completes, and the loaded entries (none
\* after an initialize) are followed by exactly one entry with the agent
\* given (or "unknown"), the round given (the current round when none is
\* given), the type, the time of the command and that content
AppendsWith(content) ==
    (Ran /\ MissingFile(args')) =>
        LET before == IF NotInit THEN load_state.entries ELSE <<>>
            e == disk'[1].entries[Len(disk'[1].entries)]
        IN  /\ Len(disk'[1].entries) = Len(before) + 1
            /\ IsPrefix(before, disk'[1].entries)
            /\ e.agent = (IF TruthyStr(args'.agent) THEN args'.agent ELSE "unknown")
            /\ TruthyInt(args'.round) => e.round = args'.round[1]
            /\ args'.round = NoInt =>
                  e.round = (IF NotInit THEN load_state.current_round ELSE 1)
            /\ e.type = args'.type
            /\ e.timestamp \in Times
            /\ e.content = content

Alive == {p \in 1..Len(server.procs) : server.procs[p] \in {"running", "signalled"}}

\* C21: at most one spawned server process is alive at any time, and
\* whenever the PID record exists it names the only live spawned server.
C21_AtMostOneServer ==
    /\ Cardinality(Alive) <= 1
    /\ server.pid_file # NoFile => Alive = {server.pid_file[1]}

\* C21, the part the code keeps: at most one spawned server has not been
\* told to terminate, it is the one the PID record names, and the record
\* never names a server that was told to terminate
C21_OneUnsignalled ==
    /\ \A p \in 1..Len(server.procs) :
          server.procs[p] = "running" => server.pid_file = <<p>>
    /\ server.pid_file # NoFile =>
          /\ server.pid_file[1] \in 1..Len(server.procs)
          /\ server.procs[server.pid_file[1]] # "signalled"

\* the command w was the last to save
LastSaver(w) == writers.of[w].pc = "saved" /\ writers.of[w].savedAt = writers.saves

\* v and w both loaded before either saved, v saved first and w last
Raced(v, w) ==
    /\ v # w /\ LastSaver(w)
    /\ writers.of[v].pc = "saved" /\ writers.of[v].savedAt = writers.saves - 1
    /\ writers.of[v].loadedAt = writers.of[w].loadedAt

\* final is the document base with the change of the command line a and
\* nothing else: one version more, the entries of base and the one appended,
\* every field the command line does not name as in base
OwnChange(base, a, final) ==
    IF TruthyStr(a.init)
    THEN /\ final.version = 1
         /\ Len(final.entries) = (IF a.add THEN 1 ELSE 0)
    ELSE /\ final.version = base.version + 1
         /\ IsPrefix(base.entries, final.entries)
         /\ Len(final.entries) = Len(base.entries) + (IF a.add THEN 1 ELSE 0)
         /\ final.topic = base.topic
         /\ ~TruthyStr(a.status) => final.status = base.status
         /\ ~TruthyStr(a.thinking) => final.thinking = base.thinking
         /\ ~TruthyInt(a.set_round) => final.current_round = base.current_round

\* C22: the document a command saves is the document it loaded with its own
\* change, whatever was saved in between: when two commands both load before
\* either saves, the persisted document after the later save holds the
\* later saver's change only and its version is the loaded version plus 1,
\* the version the earlier saver wrote too; a command that saves before the
\* next one loads changes the latest document, so nothing saved is lost.
C22_LostUpdate ==
    \A w \in WriterIds :
        LastSaver(w) =>
            LET r == writers.of[w]
            IN  /\ OwnChange(r.loaded[1], r.a, disk[1])
                /\ \A v \in WriterIds :
                      (Raced(v, w) /\ ~TruthyStr(r.a.init)
                          /\ ~TruthyStr(writers.of[v].a.init)) =>
                         /\ disk[1].version = writers.before[1].version
                         /\ writers.of[v].a.add =>
                               Len(disk[1].entries) <= Len(writers.before[1].entries)
                /\ r.loadedAt + 1 = r.savedAt =>
                      OwnChange(writers.before[1], r.a, disk[1])

\* two appends loaded the same document of one entry; the first saved its
\* entry as the second of two, the other then saved its own, different entry
\* in that place, at the same version
C22_Witness ==
    \E v, w \in WriterIds :
        /\ Raced(v, w)
        /\ writers.of[v].a.add /\ writers.of[w].a.add
        /\ writers.of[v].a.init = None /\ writers.of[w].a.init = None
        /\ Len(writers.of[w].loaded[1].entries) = 1
        /\ Len(writers.before[1].entries) = 2 /\ Len(disk[1].entries) = 2
        /\ writers.before[1].entries[2] # disk[1].entries[2]
        /\ disk[1].version = writers.before[1].version

\* a command that loaded after the previous one saved has put its entry
\* after the entry the previous one appended
C22_Sequential ==
    \E w \in WriterIds :
        /\ LastSaver(w) /\ writers.of[w].loadedAt + 1 = writers.of[w].savedAt
        /\ writers.of[w].a.add /\ writers.of[w].a.init = None
        /\ Len(disk[1].entries) = 2 /\ Len(writers.before[1].entries) = 1

\* the entry the command of this step appended, and the current_round of the
\* document at the time of the append
Appended == disk'[1].entries[Len(disk'[1].entries)]
RoundAtAppend == do_init(load_state, args').current_round

\* C23: an append given --round R records an entry of round R for every
\* integer R, round 0 included; the round is the document's current_round
\* only when no --round is given.
C23_ExplicitRound ==
    [][(Ran /\ args'.add) =>
          Appended.round = (IF args'.round # NoInt THEN args'.round[1]
                            ELSE RoundAtAppend)]_vars

\* C23, the part the code keeps: a --round other than 0 is the round of the
\* entry, and without --round the round is the document's current_round
C23_NonZeroRound ==
    [][(Ran /\ args'.add /\ args'.round # <<0>>) =>
          Appended.round = (IF args'.round # NoInt THEN args'.round[1]
                            ELSE RoundAtAppend)]_vars

\* what the code does with --round 0: the entry gets the current_round
C23_RoundZero ==
    [][(Ran /\ args'.add /\ args'.round = <<0>>) =>
          Appended.round = RoundAtAppend /\ Appended.round # 0]_vars

\* the feed shows one bubble for every entry of the persisted document
ShowsEntries(feed) ==
    /\ Len(Bubbles(feed)) = Len(disk[1].entries)
    /\ \A k \in {EntryKey(e) : e \in {disk[1].entries[i] : i \in 1..Len(disk[1].entries)}} :
          Count(BubbleKeys(feed), k) = Count(EntryKeys(disk[1].entries), k)

\* C24: whenever the persisted version equals the knownVersion of the page in
\* the browser, the persisted document is the one that page rendered or
\* applied: as many entries as the page counts, the entries its bubbles show,
\* the status and round of its badge.
C24_VersionDetects ==
    (client.loaded /\ disk # NoFile /\ client.knownVersion = disk[1].version) =>
        /\ client.renderedEntryCount = Len(disk[1].entries)
        /\ client.badge = html[1].badge
        /\ ShowsEntries(client.feed)

\* C24, second part: after applyUpdate the feed holds exactly the persisted
\* entries
C24_FeedAfterApply ==
    [][Applied => (client'.renderedEntryCount = Len(disk[1].entries)
                    /\ ShowsEntries(client'.feed))]_vars

\* the page counts the persisted entries and knows the persisted version
Displayed ==
    /\ disk # NoFile
    /\ client.renderedEntryCount = Len(disk[1].entries)
    /\ client.knownVersion = disk[1].version

\* the page is open and has not seen a completed document: it was loaded
\* while the debate was in progress
Watching == client.loaded /\ ~client.isCompleted

\* C25: with fair timers and fetches that succeed in the end, a page loaded
\* while the debate was in progress ends up, once the writer has stopped,
\* counting the persisted entries and knowing the persisted version for
\* good, entries appended after the status became completed included.
C25_EventuallyDisplayed == [](Watching => <>[]Displayed)

\* C25, the part the code keeps when no command initialises: the page ends
\* up displaying the persisted document or having seen a completed one
C25_UntilCompleted == [](Watching => <>[](Displayed \/ client.isCompleted))

\* C26: the connection indicator shows the outcome of the most recent poll:
\* "connected" after a poll whose fetch and parse succeeded, also when the
\* version was unchanged, and "disconnected" only after a poll that failed.
C26_IndicatorFollowsPoll ==
    /\ client.outcome = "ok" => client.pollDot = "connected"
    /\ client.pollDot = "disconnected" => client.outcome = "error"

\* C26, the part the code keeps: a failed poll leaves the indicator
\* disconnected, a successful poll that applies an update leaves it
\* connected, and a successful poll that finds the version unchanged leaves
\* it as it was
C26_IndicatorSteps ==
    [][/\ PollFailed => client'.pollDot = "disconnected"
       /\ (PollSucceeded /\ Applied) => client'.pollDot = "connected"
       /\ (PollSucceeded /\ ~Applied) => client'.pollDot = client.pollDot]_vars

====
